---- MODULE Spec2Model ----
(***************************************************************************)
(* Model of src/app.py: the URL token codec (b64 / ub64), the HTML         *)
(* rewriter (rewrite_html) and the forwarding proxy view (proxy).          *)
(*                                                                         *)
(* Text is a sequence of Unicode code points, bytes are a sequence of      *)
(* naturals below 256.  A value that Python computes or fails to compute   *)
(* is a record [ok |-> BOOLEAN, val |-> ...].                              *)
(***************************************************************************)
EXTENDS Integers, Sequences, FiniteSets, TLC

VARIABLES
    \* ---- proxy(): one inbound request to /embed/proxy
    pc,            \* position of the request in the view
    request,       \* the inbound request: method, query parameter u, body
    target,        \* local `target` of proxy()
    upstreamCalls, \* number of calls of requests.request made for the request
    outbound,      \* arguments of the requests.request call
    upstream,      \* what requests.request produced
    rewriteBase,   \* base_url argument of the rewrite_html call
    response,      \* what the caller receives
    \* ---- b64 / ub64 used on their own
    cpc, curl, ctok, cout,
    \* ---- rewrite_html used on its own
    rpc, html, base_url, attrPass, rewritten

vars == <<pc, request, target, upstreamCalls, outbound, upstream, rewriteBase,
          response, cpc, curl, ctok, cout, rpc, html, base_url, attrPass,
          rewritten>>

proxyVars == <<pc, request, target, upstreamCalls, outbound, upstream,
               rewriteBase, response>>
codecVars == <<cpc, curl, ctok, cout>>
rewriterVars == <<rpc, html, base_url, attrPass, rewritten>>

----------------------------------------------------------------------------
(* Bounds of the input domains.                                            *)

MaxUrlLen == 4     \* code points of a URL handed to b64 on its own
MaxTokLen == 5     \* characters of a token handed to ub64 on its own
MaxPieces == 4     \* pieces a document handed to rewrite_html is built from

----------------------------------------------------------------------------
(* Helpers on sequences.                                                   *)

Ok(v) == [ok |-> TRUE, val |-> v]
Err == [ok |-> FALSE, val |-> <<>>]

Slice(s, a, b) == IF a > b THEN <<>> ELSE SubSeq(s, a, b)

Range(s) == {s[i] : i \in 1..Len(s)}

SeqsUpTo(S, n) == UNION {[1..k -> S] : k \in 0..n}

StartsWithAt(s, i, p) ==
    /\ i + Len(p) - 1 <= Len(s)
    /\ \A k \in 1..Len(p) : s[i + k - 1] = p[k]

\* str.startswith(p)
StartsWith(s, p) == StartsWithAt(s, 1, p)

\* p in s
Contains(s, p) == \E i \in 1..(Len(s) - Len(p) + 1) : StartsWithAt(s, i, p)

RECURSIVE Concat(_)
Concat(ss) == IF ss = <<>> THEN <<>> ELSE Head(ss) \o Concat(Tail(ss))

----------------------------------------------------------------------------
(* str.encode("utf-8") and bytes.decode("utf-8"), strict.                  *)

IsSurrogate(c) == c >= 55296 /\ c <= 57343

Utf8Char(c) ==
    IF c < 128 THEN <<c>>
    ELSE IF c < 2048 THEN <<192 + (c \div 64), 128 + (c % 64)>>
    ELSE IF c < 65536
         THEN <<224 + (c \div 4096), 128 + ((c \div 64) % 64), 128 + (c % 64)>>
    ELSE <<240 + (c \div 262144), 128 + ((c \div 4096) % 64),
           128 + ((c \div 64) % 64), 128 + (c % 64)>>

RECURSIVE Utf8Bytes(_)
Utf8Bytes(s) == IF s = <<>> THEN <<>> ELSE Utf8Char(Head(s)) \o Utf8Bytes(Tail(s))

\* s.encode("utf-8") raises UnicodeEncodeError on a lone surrogate
utf8_encode(s) ==
    IF \E i \in 1..Len(s) : IsSurrogate(s[i]) THEN Err ELSE Ok(Utf8Bytes(s))

IsCont(b) == b >= 128 /\ b <= 191

\* the code point starting at bs[i] and the number of bytes it takes;
\* n = 0 stands for UnicodeDecodeError
Utf8At(bs, i) ==
    LET b == bs[i]
        has(k) == i + k <= Len(bs) /\ \A j \in 1..k : IsCont(bs[i + j])
    IN  IF b < 128 THEN [n |-> 1, c |-> b]
        ELSE IF b >= 194 /\ b <= 223 /\ has(1)
            THEN [n |-> 2, c |-> (b - 192) * 64 + (bs[i + 1] - 128)]
        ELSE IF b >= 224 /\ b <= 239 /\ has(2)
                /\ (b = 224 => bs[i + 1] >= 160)
                /\ (b = 237 => bs[i + 1] <= 159)
            THEN [n |-> 3, c |-> (b - 224) * 4096 + (bs[i + 1] - 128) * 64
                                 + (bs[i + 2] - 128)]
        ELSE IF b >= 240 /\ b <= 244 /\ has(3)
                /\ (b = 240 => bs[i + 1] >= 144)
                /\ (b = 244 => bs[i + 1] <= 143)
            THEN [n |-> 4, c |-> (b - 240) * 262144 + (bs[i + 1] - 128) * 4096
                                 + (bs[i + 2] - 128) * 64 + (bs[i + 3] - 128)]
        ELSE [n |-> 0, c |-> 0]

RECURSIVE Utf8Dec(_, _, _)
Utf8Dec(bs, i, acc) ==
    IF i > Len(bs) THEN Ok(acc)
    ELSE LET d == Utf8At(bs, i)
         IN  IF d.n = 0 THEN Err ELSE Utf8Dec(bs, i + d.n, Append(acc, d.c))

utf8_decode(bs) == Utf8Dec(bs, 1, <<>>)

----------------------------------------------------------------------------
(* base64.urlsafe_b64encode and base64.urlsafe_b64decode.                  *)

PAD == 61      \* "="

\* the standard alphabet: A-Z a-z 0-9 + /
StdChar(v) ==
    IF v < 26 THEN 65 + v
    ELSE IF v < 52 THEN 97 + (v - 26)
    ELSE IF v < 62 THEN 48 + (v - 52)
    ELSE IF v = 62 THEN 43 ELSE 47

\* binascii's table_a2b_base64: 64 stands for "not in the alphabet"
StdIndex(c) ==
    IF c >= 65 /\ c <= 90 THEN c - 65
    ELSE IF c >= 97 /\ c <= 122 THEN c - 97 + 26
    ELSE IF c >= 48 /\ c <= 57 THEN c - 48 + 52
    ELSE IF c = 43 THEN 62
    ELSE IF c = 47 THEN 63
    ELSE 64

\* the translation left out of the encoder: the standard alphabet is kept
UrlsafeEncodeTranslation_Identity(c) == c

\* _urlsafe_encode_translation: "+/" -> "-_"
UrlsafeEncodeTranslation(c) == IF c = 43 THEN 45 ELSE IF c = 47 THEN 95 ELSE c

\* the translation left out of the decoder: "-" and "_" are not recognised
UrlsafeDecodeTranslation_Identity(c) == c

\* _urlsafe_decode_translation: "-_" -> "+/"
UrlsafeDecodeTranslation(c) == IF c = 45 THEN 43 ELSE IF c = 95 THEN 47 ELSE c

\* binascii.b2a_base64 without the newline: three bytes to four characters,
\* the last group padded with "="
RECURSIVE b2a_base64(_)
b2a_base64(bs) ==
    IF bs = <<>> THEN <<>>
    ELSE IF Len(bs) = 1
        THEN <<StdChar(bs[1] \div 4), StdChar((bs[1] % 4) * 16), PAD, PAD>>
    ELSE IF Len(bs) = 2
        THEN <<StdChar(bs[1] \div 4),
               StdChar((bs[1] % 4) * 16 + (bs[2] \div 16)),
               StdChar((bs[2] % 16) * 4), PAD>>
    ELSE <<StdChar(bs[1] \div 4),
           StdChar((bs[1] % 4) * 16 + (bs[2] \div 16)),
           StdChar((bs[2] % 16) * 4 + (bs[3] \div 64)),
           StdChar(bs[3] % 64)>> \o b2a_base64(Slice(bs, 4, Len(bs)))

\* s.translate(_urlsafe_encode_translation)
TranslateEncoded(e) == [i \in 1..Len(e) |-> UrlsafeEncodeTranslation(e[i])]

urlsafe_b64encode(bs) == TranslateEncoded(b2a_base64(bs))

\* binascii.a2b_base64 with strict_mode off: characters outside the alphabet
\* are skipped, a complete pad sequence ends the parse, a quad left open at
\* the end of the input is binascii.Error
RECURSIVE a2b_base64(_, _, _, _, _, _)
a2b_base64(s, i, quad_pos, leftchar, pads, acc) ==
    IF i > Len(s) THEN (IF quad_pos # 0 THEN Err ELSE Ok(acc))
    ELSE IF s[i] = PAD
        THEN IF quad_pos >= 2 /\ quad_pos + pads + 1 >= 4
             THEN Ok(acc)
             ELSE a2b_base64(s, i + 1, quad_pos, leftchar,
                             IF quad_pos >= 2 THEN pads + 1 ELSE pads, acc)
    ELSE LET v == StdIndex(s[i])
         IN  IF v >= 64 THEN a2b_base64(s, i + 1, quad_pos, leftchar, pads, acc)
             ELSE IF quad_pos = 0 THEN a2b_base64(s, i + 1, 1, v, 0, acc)
             ELSE IF quad_pos = 1
                 THEN a2b_base64(s, i + 1, 2, v % 16, 0,
                                 Append(acc, leftchar * 4 + (v \div 16)))
             ELSE IF quad_pos = 2
                 THEN a2b_base64(s, i + 1, 3, v % 4, 0,
                                 Append(acc, leftchar * 16 + (v \div 4)))
             ELSE a2b_base64(s, i + 1, 0, 0, 0, Append(acc, leftchar * 64 + v))

\* s.encode("ascii") raises UnicodeEncodeError above code point 127
ascii_encode(s) == IF \E i \in 1..Len(s) : s[i] > 127 THEN Err ELSE Ok(s)

urlsafe_b64decode(bs) ==
    a2b_base64([i \in 1..Len(bs) |-> UrlsafeDecodeTranslation(bs[i])], 1, 0, 0, 0, <<>>)

\* def b64(s): base64.urlsafe_b64encode(s.encode("utf-8")).decode("ascii")
b64(s) ==
    LET e == utf8_encode(s)
    IN  IF e.ok THEN Ok(urlsafe_b64encode(e.val)) ELSE Err

\* def ub64(s): base64.urlsafe_b64decode(s.encode("ascii")).decode("utf-8")
ub64(s) ==
    LET a == ascii_encode(s)
        d == IF a.ok THEN urlsafe_b64decode(a.val) ELSE Err
    IN  IF d.ok THEN utf8_decode(d.val) ELSE Err

----------------------------------------------------------------------------
(* urllib.parse.urljoin, for text without tab, CR, LF, "[" and "]" and for *)
(* a base whose scheme is http or https.                                   *)

Lower(c) == IF c >= 65 /\ c <= 90 THEN c + 32 ELSE c
LowerStr(s) == [i \in 1..Len(s) |-> Lower(s[i])]

IsAlpha(c) == (c >= 65 /\ c <= 90) \/ (c >= 97 /\ c <= 122)
IsDigit(c) == c >= 48 /\ c <= 57

\* scheme_chars: letters, digits, "+-."
IsSchemeChar(c) == IsAlpha(c) \/ IsDigit(c) \/ c \in {43, 45, 46}

\* s.find(c, from), 1-based; 0 when there is none
Find(s, c, from) ==
    LET I == {i \in from..Len(s) : s[i] = c}
    IN  IF I = {} THEN 0 ELSE CHOOSE i \in I : \A j \in I : i <= j

\* s.rfind(c), 1-based; 0 when there is none
RFind(s, c) ==
    LET I == {i \in 1..Len(s) : s[i] = c}
    IN  IF I = {} THEN 0 ELSE CHOOSE i \in I : \A j \in I : i >= j

\* url.lstrip(_WHATWG_C0_CONTROL_OR_SPACE)
RECURSIVE LStrip(_)
LStrip(s) == IF s # <<>> /\ Head(s) <= 32 THEN LStrip(Tail(s)) ELSE s

HTTP == <<104, 116, 116, 112>>
HTTPS == <<104, 116, 116, 112, 115>>

\* the schemes of uses_relative, uses_netloc and uses_params a base can have
UsesRelative == {<<>>, HTTP, HTTPS}

\* _splitnetloc(url, 2): the netloc runs up to the first of "/?#"
SplitNetloc(url) ==
    LET D == {i \in 3..Len(url) : url[i] \in {47, 63, 35}}
        delim == IF D = {} THEN Len(url) + 1 ELSE CHOOSE i \in D : \A j \in D : i <= j
    IN  [netloc |-> Slice(url, 3, delim - 1), rest |-> Slice(url, delim, Len(url))]

\* if url[:2] == "//": netloc, url = _splitnetloc(url, 2)
NetlocAndRest(url) ==
    IF StartsWith(url, <<47, 47>>) THEN SplitNetloc(url)
    ELSE [netloc |-> <<>>, rest |-> url]

\* s.split(c, 1) when i is where c is first found, s and "" when i is 0
CutAt(s, i) ==
    IF i > 0 THEN [head |-> Slice(s, 1, i - 1), tail |-> Slice(s, i + 1, Len(s))]
    ELSE [head |-> s, tail |-> <<>>]

\* the position of the ":" that ends a scheme, 0 when url has no scheme
SchemeEnd(url) ==
    LET i == Find(url, 58, 1)
    IN  IF /\ i > 1
           /\ IsAlpha(url[1])
           /\ \A k \in 1..(i - 1) : IsSchemeChar(url[k])
        THEN i ELSE 0

SplitResult(scheme, netloc, q, fragment) ==
    [scheme |-> scheme, netloc |-> netloc, path |-> q.head, query |-> q.tail,
     fragment |-> fragment]

\* if "?" in url: url, query = url.split("?", 1)
SplitQuery(scheme, netloc, f) ==
    SplitResult(scheme, netloc, CutAt(f.head, Find(f.head, 63, 1)), f.tail)

\* if "#" in url: url, fragment = url.split("#", 1)
SplitFragment(scheme, n) ==
    SplitQuery(scheme, n.netloc, CutAt(n.rest, Find(n.rest, 35, 1)))

\* scheme, url = url[:i].lower(), url[i+1:]
SplitScheme(url, defscheme, i) ==
    SplitFragment(IF i > 0 THEN LowerStr(Slice(url, 1, i - 1)) ELSE defscheme,
                  NetlocAndRest(IF i > 0 THEN Slice(url, i + 1, Len(url)) ELSE url))

SplitStripped(url, defscheme) == SplitScheme(url, defscheme, SchemeEnd(url))

urlsplit(url, defscheme) == SplitStripped(LStrip(url), defscheme)

\* _splitparams
SplitParams(url) ==
    LET i == IF Find(url, 47, 1) > 0 THEN Find(url, 59, RFind(url, 47))
                                     ELSE Find(url, 59, 1)
    IN  IF i = 0 THEN [path |-> url, params |-> <<>>]
        ELSE [path |-> Slice(url, 1, i - 1), params |-> Slice(url, i + 1, Len(url))]

ParseResult(r, sp) ==
    [scheme |-> r.scheme, netloc |-> r.netloc, path |-> sp.path,
     params |-> sp.params, query |-> r.query, fragment |-> r.fragment]

\* if scheme in uses_params and ";" in url: url, params = _splitparams(url)
WithSplitParams(r) ==
    ParseResult(r, IF r.scheme \in UsesRelative /\ Find(r.path, 59, 1) > 0
                   THEN SplitParams(r.path)
                   ELSE [path |-> r.path, params |-> <<>>])

urlparse(url, defscheme) == WithSplitParams(urlsplit(url, defscheme))

\* urlunparse and urlunsplit, of the six components in the record c
WithParams(c) == IF c.params # <<>> THEN c.path \o <<59>> \o c.params ELSE c.path

WithNetloc(c, u) ==
    IF c.netloc # <<>>
       \/ (c.scheme # <<>> /\ c.scheme \in UsesRelative /\ ~StartsWith(u, <<47, 47>>))
    THEN <<47, 47>> \o c.netloc \o (IF u # <<>> /\ u[1] # 47 THEN <<47>> \o u ELSE u)
    ELSE u

WithScheme(c, u) == IF c.scheme # <<>> THEN c.scheme \o <<58>> \o u ELSE u

WithQuery(c, u) == IF c.query # <<>> THEN u \o <<63>> \o c.query ELSE u

WithFragment(c, u) == IF c.fragment # <<>> THEN u \o <<35>> \o c.fragment ELSE u

urlunparse(c) ==
    WithFragment(c, WithQuery(c, WithScheme(c, WithNetloc(c, WithParams(c)))))

\* s.split("/")
RECURSIVE SplitSlash(_)
SplitSlash(s) ==
    LET i == Find(s, 47, 1)
    IN  IF i = 0 THEN <<s>>
        ELSE <<Slice(s, 1, i - 1)>> \o SplitSlash(Slice(s, i + 1, Len(s)))

\* "/".join(segs)
RECURSIVE JoinSlash(_)
JoinSlash(segs) ==
    IF segs = <<>> THEN <<>>
    ELSE IF Len(segs) = 1 THEN segs[1]
    ELSE segs[1] \o <<47>> \o JoinSlash(Tail(segs))

\* segments[1:-1] = filter(None, segments[1:-1])
FilterMiddle(segs) ==
    IF Len(segs) <= 2 THEN segs
    ELSE <<segs[1]>>
         \o SelectSeq(Slice(segs, 2, Len(segs) - 1), LAMBDA g : g # <<>>)
         \o <<segs[Len(segs)]>>

DOT == <<46>>
DOTDOT == <<46, 46>>

\* the loop over segments that drops "." and applies ".."
RECURSIVE ResolveDots(_, _)
ResolveDots(segs, acc) ==
    IF segs = <<>> THEN acc
    ELSE IF Head(segs) = DOTDOT
        THEN ResolveDots(Tail(segs),
                         IF acc = <<>> THEN acc ELSE Slice(acc, 1, Len(acc) - 1))
    ELSE IF Head(segs) = DOT THEN ResolveDots(Tail(segs), acc)
    ELSE ResolveDots(Tail(segs), Append(acc, Head(segs)))

\* base_parts = bpath.split("/"), without its last part unless that is empty
BaseParts(parts) ==
    IF parts[Len(parts)] # <<>> THEN Slice(parts, 1, Len(parts) - 1) ELSE parts

\* the segments of the joined path
Segments(base_parts, path) ==
    IF StartsWith(path, <<47>>) THEN SplitSlash(path)
    ELSE FilterMiddle(base_parts \o SplitSlash(path))

\* if segments[-1] in (".", ".."): resolved_path.append("")
WithTrailingEmpty(segments, resolved) ==
    IF segments[Len(segments)] \in {DOT, DOTDOT} THEN Append(resolved, <<>>)
    ELSE resolved

\* "/".join(resolved_path) or "/"
OrSlash(joined) == IF joined = <<>> THEN <<47>> ELSE joined

ResolvedPath(segments) ==
    OrSlash(JoinSlash(WithTrailingEmpty(segments, ResolveDots(segments, <<>>))))

\* the components urljoin hands to urlunparse, for base b and reference r of
\* the same scheme
JoinedComponents(b, r) ==
    IF r.netloc # <<>> THEN r
    ELSE IF r.path = <<>> /\ r.params = <<>>
        THEN [scheme |-> r.scheme, netloc |-> b.netloc, path |-> b.path,
              params |-> b.params,
              query |-> IF r.query = <<>> THEN b.query ELSE r.query,
              fragment |-> r.fragment]
    ELSE [scheme |-> r.scheme, netloc |-> b.netloc,
          path |-> ResolvedPath(Segments(BaseParts(SplitSlash(b.path)), r.path)),
          params |-> r.params, query |-> r.query, fragment |-> r.fragment]

JoinParsed(b, r, url) ==
    IF r.scheme # b.scheme \/ r.scheme \notin UsesRelative THEN url
    ELSE urlunparse(JoinedComponents(b, r))

JoinWithBase(b, url) == JoinParsed(b, urlparse(url, b.scheme), url)

urljoin(base, url) ==
    IF base = <<>> THEN url
    ELSE IF url = <<>> THEN base
    ELSE JoinWithBase(urlparse(base, <<>>), url)

\* def absolutize(url, base): urllib.parse.urljoin(base, url)
absolutize(url, base) == urljoin(base, url)

----------------------------------------------------------------------------
(* rewrite_html: the two re.sub passes, matched character by character.    *)

DQ == 34       \* the double quote
SQ == 39       \* the single quote
NL == 10       \* the line feed, the one character "." does not match

\* \s and \w of the re module, on ASCII
IsSpace(c) == c \in {9, 10, 11, 12, 13, 32} \/ (c >= 28 /\ c <= 31)
IsWord(c) == IsAlpha(c) \/ IsDigit(c) \/ c = 95

\* ABS_ATTRS = ("src", "href", "action", "data-src", "data-href")
ABS_ATTRS == << <<115, 114, 99>>,
               <<104, 114, 101, 102>>,
               <<97, 99, 116, 105, 111, 110>>,
               <<100, 97, 116, 97, 45, 115, 114, 99>>,
               <<100, 97, 116, 97, 45, 104, 114, 101, 102>> >>

\* PROXY_PREFIX = "/embed/proxy?u="
PROXY_PREFIX == <<47, 101, 109, 98, 101, 100, 47, 112, 114, 111, 120, 121, 63, 117, 61>>

\* the prefixes repl leaves alone: "javascript:", "mailto:", "data:", "tel:"
SKIP_PREFIXES == { <<106, 97, 118, 97, 115, 99, 114, 105, 112, 116, 58>>,
                   <<109, 97, 105, 108, 116, 111, 58>>,
                   <<100, 97, 116, 97, 58>>,
                   <<116, 101, 108, 58>> }

\* The steps of a match take the position to match at and give the position
\* after the match; 0 stands for "no match".

\* a literal under (?i)
Lit(s, i, l) ==
    IF /\ i > 0
       /\ i + Len(l) - 1 <= Len(s)
       /\ \A k \in 1..Len(l) : Lower(s[i + k - 1]) = Lower(l[k])
    THEN i + Len(l) ELSE 0

RECURSIVE SkipSpace(_, _)
SkipSpace(s, i) == IF i <= Len(s) /\ IsSpace(s[i]) THEN SkipSpace(s, i + 1) ELSE i

\* \s*
Spaces0(s, i) == IF i = 0 THEN 0 ELSE SkipSpace(s, i)

\* \s+
Spaces1(s, i) ==
    IF i > 0 /\ i <= Len(s) /\ IsSpace(s[i]) THEN SkipSpace(s, i + 1) ELSE 0

RECURSIVE SkipDigits(_, _)
SkipDigits(s, i) == IF i <= Len(s) /\ IsDigit(s[i]) THEN SkipDigits(s, i + 1) ELSE i

\* \d+
Digits1(s, i) ==
    IF i > 0 /\ i <= Len(s) /\ IsDigit(s[i]) THEN SkipDigits(s, i + 1) ELSE 0

\* one character of a set
OneOf(s, i, C) == IF i > 0 /\ i <= Len(s) /\ s[i] \in C THEN i + 1 ELSE 0

\* (.+?)\2 from the first character of the value: at least one character,
\* then on to the nearest later occurrence of the quote, with no line feed
\* on the way
LazyValueEnd(s, vstart, quote) ==
    LET J == {j \in (vstart + 1)..Len(s) : s[j] = quote}
        j == IF J = {} THEN 0 ELSE CHOOSE x \in J : \A y \in J : x <= y
    IN  IF vstart = 0 \/ j = 0 THEN 0
        ELSE IF \E k \in vstart..(j - 1) : s[k] = NL THEN 0
        ELSE j

NoMatch == [ok |-> FALSE, start |-> 0, attr_end |-> 0, quote |-> 0,
            val_start |-> 0, val_end |-> 0, end |-> 0]

\* \b in front of a name: the start of the text or a character that \w does
\* not match
WordStart(s, i) == IF i = 1 \/ ~IsWord(s[i - 1]) THEN i ELSE 0

\* the match, once the closing quote is found at j
AttrMatchValue(s, i, k, p3, j) ==
    IF j = 0 THEN NoMatch
    ELSE [ok |-> TRUE, start |-> i, attr_end |-> i + Len(ABS_ATTRS[k]) - 1,
          quote |-> s[p3], val_start |-> p3 + 1, val_end |-> j - 1, end |-> j]

\* (['"])(.+?)\2 with the opening quote looked for at p3
AttrMatchQuote(s, i, k, p3) ==
    IF OneOf(s, p3, {SQ, DQ}) = 0 THEN NoMatch
    ELSE AttrMatchValue(s, i, k, p3, LazyValueEnd(s, p3 + 1, s[p3]))

\* \b(NAME)\s*=\s*(['"])(.+?)\2 at position i with the k-th name
AttrMatchWith(s, i, k) ==
    AttrMatchQuote(s, i, k,
        Spaces0(s, OneOf(s, Spaces0(s, Lit(s, WordStart(s, i), ABS_ATTRS[k])), {61})))

\* the alternatives of the group are tried in the order they are written
RECURSIVE AttrMatchNames(_, _, _)
AttrMatchOr(s, i, k, m) == IF m.ok THEN m ELSE AttrMatchNames(s, i, k + 1)

AttrMatchNames(s, i, k) ==
    IF k > Len(ABS_ATTRS) THEN NoMatch
    ELSE AttrMatchOr(s, i, k, AttrMatchWith(s, i, k))

AttrMatchAt(s, i) == AttrMatchNames(s, i, 1)

\* the leftmost match that starts at pos or later
RECURSIVE FirstAttrMatch(_, _)
FirstAttrOr(s, pos, m) == IF m.ok THEN m ELSE FirstAttrMatch(s, pos + 1)

FirstAttrMatch(s, pos) ==
    IF pos > Len(s) THEN NoMatch ELSE FirstAttrOr(s, pos, AttrMatchAt(s, pos))

\* the matches re.sub finds, left to right, none overlapping another
RECURSIVE AttrMatches(_, _)
AttrMatchesFrom(s, m) ==
    IF m.ok THEN <<m>> \o AttrMatches(s, m.end + 1) ELSE <<>>

AttrMatches(s, pos) == AttrMatchesFrom(s, FirstAttrMatch(s, pos))

\* def repl(match)
repl(s, m, base) ==
    LET attr == Slice(s, m.start, m.attr_end)
        val == Slice(s, m.val_start, m.val_end)
        abs_url == absolutize(val, base)
        prox_url == PROXY_PREFIX \o b64(abs_url).val
    IN  IF \E p \in SKIP_PREFIXES : StartsWith(val, p)
        THEN Slice(s, m.start, m.end)
        ELSE attr \o <<61>> \o <<m.quote>> \o prox_url \o <<m.quote>>

\* re.sub: the text between the matches is copied, each match is replaced
RECURSIVE SubAttr(_, _, _, _)
SubAttr(s, ms, pos, base) ==
    IF ms = <<>> THEN Slice(s, pos, Len(s))
    ELSE Slice(s, pos, Head(ms).start - 1) \o repl(s, Head(ms), base)
         \o SubAttr(s, Tail(ms), Head(ms).end + 1, base)

\* html = re.sub(pattern, repl, html), with the matches it made
AttrPassOf(s, base, ms) == [out |-> SubAttr(s, ms, 1, base), matches |-> ms]

attr_pass(s, base) == AttrPassOf(s, base, AttrMatches(s, 1))

\* the first quote at p or later, 0 when there is none
FirstQuote(s, p) ==
    LET Q == {j \in p..Len(s) : s[j] \in {SQ, DQ}}
    IN  IF Q = {} THEN 0 ELSE CHOOSE x \in Q : \A y \in Q : x <= y

\* /?
OptSlash(s, p) == IF OneOf(s, p, {47}) > 0 THEN p + 1 ELSE p

\* <meta\s+http-equiv=["']refresh["']\s+content=["']\s*\d+\s*;\s*url=
\* from position i: the position after "url=", 0 when that much does not match
MetaHead(s, i) ==
    LET p1 == Spaces1(s, Lit(s, i, <<60, 109, 101, 116, 97>>))
        p2 == OneOf(s, Lit(s, p1, <<104, 116, 116, 112, 45, 101, 113, 117, 105, 118, 61>>), {SQ, DQ})
        p3 == OneOf(s, Lit(s, p2, <<114, 101, 102, 114, 101, 115, 104>>), {SQ, DQ})
        p4 == OneOf(s, Lit(s, Spaces1(s, p3), <<99, 111, 110, 116, 101, 110, 116, 61>>), {SQ, DQ})
        p5 == Spaces0(s, Digits1(s, Spaces0(s, p4)))
    IN  Lit(s, Spaces0(s, OneOf(s, p5, {59})), <<117, 114, 108, 61>>)

MetaMatchEnd(s, i, p6, q, p9) ==
    IF p9 = 0 THEN NoMatch
    ELSE [ok |-> TRUE, start |-> i, attr_end |-> 0, quote |-> s[q],
          val_start |-> p6, val_end |-> q - 1, end |-> p9 - 1]

\* ([^"']+)["']\s*/?> with the first quote after "url=" at q
MetaMatchValue(s, i, p6, q) ==
    IF q <= p6 THEN NoMatch
    ELSE MetaMatchEnd(s, i, p6, q, OneOf(s, OptSlash(s, Spaces0(s, q + 1)), {62}))

MetaMatchFrom(s, i, p6) ==
    IF p6 = 0 THEN NoMatch ELSE MetaMatchValue(s, i, p6, FirstQuote(s, p6))

MetaMatchAt(s, i) == MetaMatchFrom(s, i, MetaHead(s, i))

RECURSIVE FirstMetaMatch(_, _)
FirstMetaOr(s, pos, m) == IF m.ok THEN m ELSE FirstMetaMatch(s, pos + 1)

FirstMetaMatch(s, pos) ==
    IF pos > Len(s) THEN NoMatch ELSE FirstMetaOr(s, pos, MetaMatchAt(s, pos))

\* the lambda of the second re.sub
meta_repl(s, m, base) ==
    <<60, 109, 101, 116, 97, 32, 104, 116, 116, 112, 45, 101, 113,
      117, 105, 118, 61, 34, 114, 101, 102, 114, 101, 115, 104,
      34, 32, 99, 111, 110, 116, 101, 110, 116, 61, 34, 48, 59,
      32, 117, 114, 108, 61>>
    \o PROXY_PREFIX \o b64(absolutize(Slice(s, m.val_start, m.val_end), base)).val
    \o <<DQ, 62>>

RECURSIVE meta_pass(_, _, _)
MetaPassAt(s, pos, base, m) ==
    IF m.ok
    THEN Slice(s, pos, m.start - 1) \o meta_repl(s, m, base)
         \o meta_pass(s, m.end + 1, base)
    ELSE Slice(s, pos, Len(s))

meta_pass(s, pos, base) == MetaPassAt(s, pos, base, FirstMetaMatch(s, pos))

\* def rewrite_html(html, base_url)
rewrite_html(s, base) == meta_pass(attr_pass(s, base).out, 1, base)

----------------------------------------------------------------------------
(* proxy(): the view behind @app.route("/embed/proxy", methods=[GET, POST]) *)

\* the methods an inbound request is made with
Methods == {"GET", "HEAD", "POST", "PUT", "DELETE", "OPTIONS"}

\* methods=["GET", "POST"]; Flask adds HEAD to a rule that has GET, and
\* answers OPTIONS itself for a rule that does not list it.
RouteMethods == {"GET", "POST"}
ViewMethods == RouteMethods \cup (IF "GET" \in RouteMethods THEN {"HEAD"} ELSE {})
AutomaticOptions == IF "OPTIONS" \in RouteMethods THEN {} ELSE {"OPTIONS"}

None == [some |-> FALSE, val |-> <<>>]
Some(v) == [some |-> TRUE, val |-> v]

\* "http://h/x/y", a page of a provider
TargetA == <<104, 116, 116, 112, 58, 47, 47, 104, 47, 120, 47, 121>>
\* "http://o/z/w", where the provider redirects to
RedirectedUrl == <<104, 116, 116, 112, 58, 47, 47, 111, 47, 122, 47, 119>>
\* "foo", a relative reference
RelativeRef == <<102, 111, 111>>

\* the values of the query parameter u: absent, empty, tokens b64 made,
\* a token with a character outside the alphabet in front, malformed ones
QueryU ==
    { None, Some(<<>>),
      Some(b64(TargetA).val),
      Some(<<33>> \o b64(TargetA).val),
      Some(b64(RelativeRef).val),
      Some(<<33, 33>>),
      Some(<<89>>),
      Some(<<54, 81, 61, 61>>),
      Some(<<233>>) }

\* inbound request bodies: none, "k=v"
InboundBodies == { <<>>, <<107, 61, 118>> }

\* upstream Content-Type headers: none, "text/html",
\* "TEXT/HTML; charset=ISO-8859-1", "image/png", "application/xhtml+xml"
ContentTypes ==
    { None,
      Some(<<116, 101, 120, 116, 47, 104, 116, 109, 108>>),
      Some(<<84, 69, 88, 84, 47, 72, 84, 77, 76, 59, 32, 99, 104, 97, 114,
        115, 101, 116, 61, 73, 83, 79, 45, 56, 56, 53, 57, 45,
        49>>),
      Some(<<105, 109, 97, 103, 101, 47, 112, 110, 103>>),
      Some(<<97, 112, 112, 108, 105, 99, 97, 116, 105, 111, 110, 47, 120,
        104, 116, 109, 108, 43, 120, 109, 108>>) }

TEXT_HTML == <<116, 101, 120, 116, 47, 104, 116, 109, 108>>

\* upstream bodies: empty, <a href="b">, <a href="" id="x">,
\* <img src='/i.png'>, a meta refresh to /n, the first bytes of a PNG file
UpstreamBodies ==
    { <<>>,
      <<60, 97, 32, 104, 114, 101, 102, 61, 34, 98, 34, 62>>,
      <<60, 97, 32, 104, 114, 101, 102, 61, 34, 34, 32, 105, 100, 61,
        34, 120, 34, 62>>,
      <<60, 105, 109, 103, 32, 115, 114, 99, 61, 39, 47, 105, 46, 112,
        110, 103, 39, 62>>,
      <<60, 109, 101, 116, 97, 32, 104, 116, 116, 112, 45, 101, 113,
        117, 105, 118, 61, 34, 114, 101, 102, 114, 101, 115, 104,
        34, 32, 99, 111, 110, 116, 101, 110, 116, 61, 34, 53, 59,
        32, 117, 114, 108, 61, 47, 110, 34, 62>>,
      <<137, 80, 78, 71>> }

UpstreamStatuses == {200, 404, 500}

\* str(e) of the requests.RequestException: "timed out", "refused"
Causes == { <<116, 105, 109, 101, 100, 32, 111, 117, 116>>, <<114, 101, 102, 117, 115, 101, 100>> }

\* "Upstream error: "
UPSTREAM_ERROR_PREFIX == <<85, 112, 115, 116, 114, 101, 97, 109, 32, 101, 114, 114, 111,
        114, 58, 32>>

\* "Invalid URL", what requests raises before it opens a connection
INVALID_URL == <<73, 110, 118, 97, 108, 105, 100, 32, 85, 82, 76>>

\* requests sends a URL only when it starts with http:// or https:// and
\* names a host; for any other it raises MissingSchema, InvalidSchema or
\* InvalidURL, each a RequestException
HasHttpHost(r) == r.scheme \in {HTTP, HTTPS} /\ r.netloc # <<>>

Fetchable(url) == HasHttpHost(urlsplit(url, <<>>))

\* the responses the upstream can give to a request for url: any status, any
\* Content-Type, any body, at url itself or at the end of a redirect chain
UpstreamResponses(url) ==
    { [kind |-> "response", status |-> st, content_type |-> ct, content |-> b,
       url |-> fu] :
      st \in UpstreamStatuses, ct \in ContentTypes, b \in UpstreamBodies,
      fu \in {url, RedirectedUrl} }

\* Response.text for a text type without charset or with ISO-8859-1: byte b
\* is code point b
upstream_text(content) == [i \in 1..Len(content) |-> content[i]]

\* abort(code)
abort(code) == [status |-> code, body |-> <<>>, content_type |-> None]

\* the router's own answer to OPTIONS: 200, no body
options_response == [status |-> 200, body |-> <<>>, content_type |-> None]

\* a check for a missing parameter alone, which lets the empty token through
not_u_OnlyMissing(u) == ~u.some

\* if not u
not_u(u) == ~u.some \/ u.val = <<>>

\* the body forwarded whatever the method
forwarded_data_Always(method, body) == Some(body)

\* data = request.get_data() if method == "POST" else None
forwarded_data(method, body) == IF method = "POST" THEN Some(body) ELSE None

\* the failure answered with 500 instead of 502
upstream_error_response_Unhandled(e) ==
    [status |-> 500, body |-> Utf8Bytes(UPSTREAM_ERROR_PREFIX \o e),
     content_type |-> None]

\* Response(f"Upstream error: {e}", status=502)
upstream_error_response(e) ==
    [status |-> 502, body |-> Utf8Bytes(UPSTREAM_ERROR_PREFIX \o e),
     content_type |-> None]

\* upstream.headers.get("Content-Type", "")
header_content_type(h) == IF h.some THEN h.val ELSE <<>>

\* a test for "html" alone, which takes application/xhtml+xml for HTML
is_html_AnyHtml(content_type) == Contains(LowerStr(content_type), <<104, 116, 109, 108>>)

\* "text/html" in content_type.lower()
is_html(content_type) == Contains(LowerStr(content_type), TEXT_HTML)

\* the base_url argument of rewrite_html(html, target)
rewrite_base(tgt, final_url) == tgt

NoUpstream == [kind |-> "none"]

ProxyIdle ==
    /\ pc = "IDLE"
    /\ request = [method |-> "GET", u |-> None, data |-> <<>>]
    /\ target = Err
    /\ upstreamCalls = 0
    /\ outbound = None
    /\ upstream = NoUpstream
    /\ rewriteBase = None
    /\ response = None

CodecIdle == cpc = "IDLE" /\ curl = <<>> /\ ctok = Err /\ cout = Err

RewriterIdle ==
    /\ rpc = "IDLE"
    /\ html = <<>>
    /\ base_url = <<>>
    /\ attrPass = Err
    /\ rewritten = Err

InitProxy ==
    /\ CodecIdle
    /\ RewriterIdle
    /\ pc = "ROUTE"
    /\ request \in [method : Methods, u : QueryU, data : InboundBodies]
    /\ target = Err
    /\ upstreamCalls = 0
    /\ outbound = None
    /\ upstream = NoUpstream
    /\ rewriteBase = None
    /\ response = None

\* the routing of the request to the view, or 405 Method Not Allowed
Route ==
    /\ pc = "ROUTE"
    /\ CASE request.method \in ViewMethods ->
                pc' = "RECEIVE" /\ UNCHANGED response
         [] request.method \in AutomaticOptions ->
                pc' = "OPTIONS_ANSWERED" /\ response' = Some(options_response)
         [] OTHER ->
                pc' = "METHOD_NOT_ALLOWED" /\ response' = Some(abort(405))
    /\ UNCHANGED <<request, target, upstreamCalls, outbound, upstream, rewriteBase>>
    /\ UNCHANGED codecVars
    /\ UNCHANGED rewriterVars

\* u = request.args.get("u"); if not u: abort(400)
Receive ==
    /\ pc = "RECEIVE"
    /\ IF not_u(request.u)
       THEN pc' = "REJECT" /\ response' = Some(abort(400))
       ELSE pc' = "DECODE_TOKEN" /\ UNCHANGED response
    /\ UNCHANGED <<request, target, upstreamCalls, outbound, upstream, rewriteBase>>
    /\ UNCHANGED codecVars
    /\ UNCHANGED rewriterVars

\* try: target = ub64(u) / except Exception: abort(400)
DecodeToken ==
    /\ pc = "DECODE_TOKEN"
    /\ target' = ub64(request.u.val)
    /\ IF target'.ok
       THEN pc' = "DISPATCH_UPSTREAM" /\ UNCHANGED response
       ELSE pc' = "REJECT" /\ response' = Some(abort(400))
    /\ UNCHANGED <<request, upstreamCalls, outbound, upstream, rewriteBase>>
    /\ UNCHANGED codecVars
    /\ UNCHANGED rewriterVars

\* the requests.request call and what it raises or returns
Dispatch ==
    /\ pc = "DISPATCH_UPSTREAM"
    /\ outbound' = Some([method |-> request.method, url |-> target.val,
                         referer |-> target.val,
                         data |-> forwarded_data(request.method, request.data),
                         allow_redirects |-> TRUE, timeout |-> 20])
    /\ upstreamCalls' = upstreamCalls + 1
    /\ \/ /\ ~Fetchable(target.val)
          /\ upstream' = [kind |-> "raised", cause |-> INVALID_URL]
          /\ pc' = "UPSTREAM_ERROR"
          /\ response' = Some(upstream_error_response(INVALID_URL))
       \/ /\ Fetchable(target.val)
          /\ \E e \in Causes :
                /\ upstream' = [kind |-> "raised", cause |-> e]
                /\ pc' = "UPSTREAM_ERROR"
                /\ response' = Some(upstream_error_response(e))
       \/ /\ Fetchable(target.val)
          /\ upstream' \in UpstreamResponses(target.val)
          /\ pc' = "REWRITE_IF_HTML"
          /\ UNCHANGED response
    /\ UNCHANGED <<request, target, rewriteBase>>
    /\ UNCHANGED codecVars
    /\ UNCHANGED rewriterVars

\* the HTML branch: the links are rewritten, Flask encodes the text as UTF-8
RespondHtml ==
    /\ pc = "REWRITE_IF_HTML"
    /\ is_html(header_content_type(upstream.content_type))
    /\ rewriteBase' = Some(rewrite_base(target.val, upstream.url))
    /\ response' = Some([status |-> upstream.status,
                         body |-> Utf8Bytes(rewrite_html(upstream_text(upstream.content),
                                                         rewriteBase'.val)),
                         content_type |-> Some(header_content_type(upstream.content_type))])
    /\ pc' = "RESPOND"
    /\ UNCHANGED <<request, target, upstreamCalls, outbound, upstream>>
    /\ UNCHANGED codecVars
    /\ UNCHANGED rewriterVars

\* the passthrough of anything that is not HTML
RespondPassthrough ==
    /\ pc = "REWRITE_IF_HTML"
    /\ ~is_html(header_content_type(upstream.content_type))
    /\ response' = Some([status |-> upstream.status,
                         body |-> upstream.content,
                         content_type |-> Some(header_content_type(upstream.content_type))])
    /\ pc' = "RESPOND"
    /\ UNCHANGED <<request, target, upstreamCalls, outbound, upstream, rewriteBase>>
    /\ UNCHANGED codecVars
    /\ UNCHANGED rewriterVars

Next == Route \/ Receive \/ DecodeToken \/ Dispatch \/ RespondHtml \/ RespondPassthrough

Spec == InitProxy /\ [][Next]_vars

Terminal ==
    pc \in {"METHOD_NOT_ALLOWED", "OPTIONS_ANSWERED", "REJECT", "UPSTREAM_ERROR", "RESPOND"}

----------------------------------------------------------------------------
(* The codec on its own: a URL is encoded and the token decoded again, or  *)
(* a token that arrives from outside is decoded.                           *)

\* h : / ? ~ e-acute euro-sign
UrlCps == {104, 58, 47, 63, 126, 233, 8364}

\* Y Q = ! - e-acute
TokCps == {89, 81, 61, 33, 45, 233}

InitCodec ==
    /\ ProxyIdle
    /\ RewriterIdle
    /\ cout = Err
    /\ \/ /\ cpc = "url"
          /\ curl \in SeqsUpTo(UrlCps, MaxUrlLen)
          /\ ctok = Err
       \/ /\ cpc = "token"
          /\ curl = <<>>
          /\ ctok \in {Ok(t) : t \in SeqsUpTo(TokCps, MaxTokLen)}

\* b64(curl)
Encode ==
    /\ cpc = "url"
    /\ ctok' = b64(curl)
    /\ cpc' = "encoded"
    /\ UNCHANGED <<curl, cout>>
    /\ UNCHANGED proxyVars
    /\ UNCHANGED rewriterVars

\* ub64(ctok), of a token that b64 made or of one from outside
Decode ==
    /\ cpc \in {"encoded", "token"}
    /\ ctok.ok
    /\ cout' = ub64(ctok.val)
    /\ cpc' = IF cpc = "encoded" THEN "roundtrip" ELSE "decoded"
    /\ UNCHANGED <<curl, ctok>>
    /\ UNCHANGED proxyVars
    /\ UNCHANGED rewriterVars

NextCodec == Encode \/ Decode

SpecCodec == InitCodec /\ [][NextCodec]_vars

----------------------------------------------------------------------------
(* rewrite_html on its own: a document put together from pieces of markup  *)
(* is rewritten against a base.                                            *)

\* href=  "  '  a  javascript:  " SRC = "  and a whole meta refresh tag
\* <meta http-equiv="refresh" content="5; url=/n">
Pieces ==
    { <<104, 114, 101, 102, 61>>,
      <<DQ>>,
      <<SQ>>,
      <<97>>,
      <<106, 97, 118, 97, 115, 99, 114, 105, 112, 116, 58>>,
      <<32, 83, 82, 67, 32, 61, 32>>,
      <<60, 109, 101, 116, 97, 32, 104, 116, 116, 112, 45, 101, 113,
        117, 105, 118, 61, 34, 114, 101, 102, 114, 101, 115, 104,
        34, 32, 99, 111, 110, 116, 101, 110, 116, 61, 34, 53, 59,
        32, 117, 114, 108, 61, 47, 110, 34, 62>> }

Documents == {Concat(d) : d \in SeqsUpTo(Pieces, MaxPieces)}

RewriterBases == {TargetA}

InitRewriter ==
    /\ ProxyIdle
    /\ CodecIdle
    /\ rpc = "call"
    /\ html \in Documents
    /\ base_url \in RewriterBases
    /\ attrPass = Err
    /\ rewritten = Err

\* rewrite_html(html, base_url); attrPass is the local html between the two
\* re.sub calls, with the matches the first one made
RewriteHtml ==
    /\ rpc = "call"
    /\ attrPass' = Ok(attr_pass(html, base_url))
    /\ rewritten' = Ok(meta_pass(attrPass'.val.out, 1, base_url))
    /\ rpc' = "done"
    /\ UNCHANGED <<html, base_url>>
    /\ UNCHANGED proxyVars
    /\ UNCHANGED codecVars

NextRewriter == RewriteHtml

SpecRewriter == InitRewriter /\ [][NextRewriter]_vars

----------------------------------------------------------------------------
(* Properties of the codec, under SpecCodec.                               *)

IsUrlsafeChar(c) == IsAlpha(c) \/ IsDigit(c) \/ c \in {45, 95}

\* C4: a URL that was encoded and then decoded comes back as it was, and the
\* token is the one b64 gives for the URL, whatever else is in the state.
C4_RoundTrip ==
    /\ cpc \in {"encoded", "roundtrip"} => ctok = b64(curl)
    /\ cpc = "roundtrip" => cout = Ok(curl)

\* a non-ASCII URL whose token has "-" in it went round
C4_Witness ==
    /\ cpc = "roundtrip"
    /\ cout.ok
    /\ \E i \in 1..Len(curl) : curl[i] > 127
    /\ 45 \in Range(ctok.val)

\* C5 as the claim states it: no token has padding, and none has one of the
\* characters double quote, single quote, "&", "=".
C5_PaddingFree ==
    cpc = "encoded" /\ ctok.ok =>
        \A i \in 1..Len(ctok.val) : ctok.val[i] \notin {DQ, SQ, 38, PAD}

\* C5 (amended): a token is made of A-Z a-z 0-9 "-" "_" and of "=" padding
\* at its end only, as many as make its length the multiple of 4 that holds
\* the bytes of the URL; so it has no double quote, single quote or "&".
C5_PaddedUrlsafeAlphabet ==
    cpc = "encoded" /\ ctok.ok =>
        LET t == ctok.val
            n == Len(Utf8Bytes(curl))
            pads == (3 - (n % 3)) % 3
        IN  /\ Len(t) = 4 * ((n + 2) \div 3)
            /\ \A i \in 1..Len(t) :
                  IF i > Len(t) - pads THEN t[i] = PAD ELSE IsUrlsafeChar(t[i])
            /\ \A i \in 1..Len(t) : t[i] \notin {DQ, SQ, 38}

\* a token with both "-" and padding was made
C5_Witness ==
    /\ cpc = "encoded"
    /\ ctok.ok
    /\ PAD \in Range(ctok.val)
    /\ 45 \in Range(ctok.val)

\* C6 as the claim states it: a token that ub64 accepts is not empty and is
\* what b64 gives for the URL ub64 returned.
C6_DecodeRejectsInvalid ==
    cpc = "decoded" /\ cout.ok => ctok.val # <<>> /\ b64(cout.val) = ctok

----------------------------------------------------------------------------
(* Properties of the attribute pass, under SpecRewriter.                   *)

\* the document the claim describes: the text of s from pos on, with the
\* value of every match replaced unless it starts with a skipped prefix
RECURSIVE ValuesReplaced(_, _, _, _)
ValuesReplaced(s, ms, pos, base) ==
    IF ms = <<>> THEN Slice(s, pos, Len(s))
    ELSE LET m == Head(ms)
             val == Slice(s, m.val_start, m.val_end)
         IN  Slice(s, pos, m.val_start - 1)
             \o (IF \E p \in SKIP_PREFIXES : StartsWith(val, p) THEN val
                 ELSE PROXY_PREFIX \o b64(absolutize(val, base)).val)
             \o ValuesReplaced(s, Tail(ms), m.val_end + 1, base)

\* C8 as the claim states it: no captured value holds its own quote
\* character, and the result of the attribute pass is the input with nothing
\* but the values of the matched attributes replaced.
C8_OnlyValuesReplaced ==
    rpc = "done" =>
        LET ms == attrPass.val.matches
        IN  /\ \A k \in 1..Len(ms) :
                  \A i \in ms[k].val_start..ms[k].val_end : html[i] # ms[k].quote
            /\ attrPass.val.out = ValuesReplaced(html, ms, 1, base_url)

----------------------------------------------------------------------------
(* Properties of the proxy view, under Spec.                               *)

\* a token the view must turn down: none, empty, or one ub64 fails on
BadToken(u) == ~u.some \/ u.val = <<>> \/ ~ub64(u.val).ok

\* a URL with a scheme
IsAbsoluteUrl(u) == urlsplit(u, <<>>).scheme # <<>>

C2_UpstreamFailureIs502 ==
    /\ upstreamCalls <= 1
    /\ upstream.kind = "raised" =>
          /\ pc = "UPSTREAM_ERROR"
          /\ response.some
          /\ response.val.status = 502
          /\ response.val.body = UPSTREAM_ERROR_PREFIX \o upstream.cause
          /\ upstreamCalls = 1
    /\ pc = "UPSTREAM_ERROR" => upstream.kind = "raised"

\* the call for a URL that can be fetched timed out or was refused
C2_Witness ==
    /\ pc = "UPSTREAM_ERROR"
    /\ Fetchable(target.val)
    /\ upstream.cause \in Causes
    /\ response.val.status = 502

\* C3 as the claim states it: the base the rewriter gets is the URL the
\* response came from.
C3_BaseIsFinalUrl ==
    rewriteBase.some => rewriteBase.val = upstream.url

\* the methods that carry a body, among Methods
BodyBearing == {"POST", "PUT"}

\* C7 as the claim states it: a request with a good token, made with any
\* method, is sent upstream with that method, and with its body exactly when
\* the method carries one.
C7_AnyMethodForwarded ==
    Terminal /\ ~BadToken(request.u) =>
        /\ outbound.some
        /\ outbound.val.method = request.method
        /\ outbound.val.data.some <=> request.method \in BodyBearing

\* C7 (amended): a GET, HEAD or POST with a good token is sent upstream with
\* its own method, and with the inbound body exactly when it is a POST; any
\* other method is answered by the router (405, or its own reply to OPTIONS)
\* and nothing is sent upstream.
C7_RoutedMethodForwarded ==
    /\ outbound.some =>
          /\ request.method \in {"GET", "HEAD", "POST"}
          /\ outbound.val.method = request.method
          /\ outbound.val.data.some <=> request.method = "POST"
          /\ outbound.val.data.some => outbound.val.data.val = request.data
    /\ Terminal /\ ~BadToken(request.u) /\ request.method \in {"GET", "HEAD", "POST"}
          => outbound.some
    /\ pc # "ROUTE" /\ request.method \notin {"GET", "HEAD", "POST"} =>
          /\ pc \in {"METHOD_NOT_ALLOWED", "OPTIONS_ANSWERED"}
          /\ pc = "METHOD_NOT_ALLOWED" <=> request.method # "OPTIONS"
          /\ pc = "METHOD_NOT_ALLOWED" => response.val.status = 405
          /\ upstreamCalls = 0
          /\ outbound = None

\* a POST went upstream with its body "k=v" and was answered
C7_Witness ==
    /\ pc = "RESPOND"
    /\ request.method = "POST"
    /\ outbound.val.method = "POST"
    /\ outbound.val.data = Some(<<107, 61, 118>>)

\* C9: a response whose Content-Type has no "text/html" in it, in any case of
\* letters, goes to the caller with the body, status and Content-Type of the
\* upstream and the rewriter is not run; the rewriter runs for text/html
\* only; a response with any status ends in RESPOND with that status.
C9_Passthrough ==
    /\ pc = "RESPOND" =>
          /\ response.val.status = upstream.status
          /\ response.val.content_type
                = Some(IF upstream.content_type.some
                       THEN upstream.content_type.val ELSE <<>>)
    /\ pc = "RESPOND"
       /\ ~(upstream.content_type.some
            /\ Contains(LowerStr(upstream.content_type.val), TEXT_HTML)) =>
          /\ response.val.body = upstream.content
          /\ rewriteBase = None
    /\ rewriteBase.some =>
          /\ upstream.content_type.some
          /\ Contains(LowerStr(upstream.content_type.val), TEXT_HTML)
    /\ upstream.kind = "response" /\ Terminal => pc = "RESPOND"

\* a 404 of type application/xhtml+xml with a link in it was passed through
C9_Witness ==
    /\ pc = "RESPOND"
    /\ upstream.status = 404
    /\ upstream.content_type = Some(<<97, 112, 112, 108, 105, 99, 97, 116, 105, 111, 110, 47, 120, 104, 116, 109, 108, 43, 120, 109, 108>>)
    /\ upstream.content = <<60, 97, 32, 104, 114, 101, 102, 61, 34, 98, 34, 62>>
    /\ response.val.body = upstream.content

\* C10 as the claim states it: the URL of an upstream call is absolute, and
\* so is every URL the rewriter encodes.
C10_AbsoluteBeforeUse ==
    /\ outbound.some => IsAbsoluteUrl(outbound.val.url)
    /\ rewriteBase.some =>
          LET doc == upstream_text(upstream.content)
              ms == attr_pass(doc, rewriteBase.val).matches
          IN  \A k \in 1..Len(ms) :
                  LET val == Slice(doc, ms[k].val_start, ms[k].val_end)
                  IN  (\A p \in SKIP_PREFIXES : ~StartsWith(val, p))
                          => IsAbsoluteUrl(absolutize(val, rewriteBase.val))

====
